---- MODULE Spec2Model ----
(***************************************************************************)
(* Model of src/types/url.rs: the Url value type (a string with a cached   *)
(* "parses as a URI" flag), its queries and its serde adapters.            *)
(*                                                                         *)
(* Text is a sequence of one-character strings.  The URI parser that       *)
(* url.rs calls at lines 38 and 48 (str::parse::<http::Uri>, crate http)   *)
(* is modelled step by step after http::Uri::from_shared.  Its length      *)
(* limits (MAX_LEN = 65534 bytes, MAX_SCHEME_LEN = 64) lie far above the   *)
(* texts explored here and are left out.                                   *)
(***************************************************************************)
EXTENDS Integers, Sequences, FiniteSets, TLC

VARIABLES
    raw,    \* the string given to Url::new or to the decoder (url.rs:28, 108)
    ctor,   \* what built the value: "none", "new", "mock" or "deserialize"
    u,      \* the Url value: Url(String, bool) (url.rs:10)
    op,     \* the last operation called
    ret,    \* what the last operation returned
    wire,   \* the scalar handed to the serializer (url.rs:86)
    other   \* the right-hand operand of the last == (url.rs:9)

vars == <<raw, ctor, u, op, ret, wire, other>>

\* Longest tail appended to a scheme and a host when enumerating raw inputs.
MaxLen == 3

----------------------------------------------------------------------------
(* Characters *)

LowerSeq == <<"a","b","c","d","e","f","g","h","i","j","k","l","m",
              "n","o","p","q","r","s","t","u","v","w","x","y","z">>

UpperSeq == <<"A","B","C","D","E","F","G","H","I","J","K","L","M",
              "N","O","P","Q","R","S","T","U","V","W","X","Y","Z">>

Range(f) == { f[i] : i \in DOMAIN f }

ALPHA == Range(LowerSeq) \cup Range(UpperSeq)

DIGIT == {"0","1","2","3","4","5","6","7","8","9"}

\* u8::to_ascii_lowercase, as used by eq_ignore_ascii_case
to_ascii_lowercase(c) ==
    IF c \in Range(UpperSeq)
    THEN LowerSeq[CHOOSE i \in DOMAIN UpperSeq : UpperSeq[i] = c]
    ELSE c

eq_ignore_ascii_case(a, b) ==
    /\ Len(a) = Len(b)
    /\ \A i \in DOMAIN a : to_ascii_lowercase(a[i]) = to_ascii_lowercase(b[i])

\* The bytes with a non-zero entry in http's URI_CHARS table.
URI_CHARS == ALPHA \cup DIGIT \cup
    {"!","#","$","&","'","(",")","*","+",",","-",".","/",":",";","=","?","@",
     "[","]","_","~"}

\* The bytes with a non-zero entry in http's SCHEME_CHARS table.
SCHEME_CHARS == ALPHA \cup DIGIT \cup {"+","-",".",":"}

\* Bytes PathAndQuery::from_shared accepts in a path:
\* 0x21 | 0x24..=0x3B | 0x3D | 0x40..=0x5F | 0x61..=0x7A | 0x7C | 0x7E,
\* and the double quote and the two braces
PATH_CHARS == ALPHA \cup DIGIT \cup
    {"!","$","%","&","'","(",")","*","+",",","-",".","/",":",";","=","@",
     "[","\\","]","^","_","|","~","\"","{","}"}

\* Bytes PathAndQuery::from_shared accepts in a query:
\* 0x21 | 0x24..=0x3B | 0x3D | 0x3F..=0x7E (the backquote, 0x60, cannot be
\* written as a TLA+ string and occurs in no text explored here)
QUERY_CHARS == ALPHA \cup DIGIT \cup
    {"!","$","%","&","'","(",")","*","+",",","-",".","/",":",";","=","?","@",
     "[","\\","]","^","_","{","|","}","~"}

\* char::is_whitespace on the characters used here
WHITESPACE == {" ", "\t", "\n", "\r"}

----------------------------------------------------------------------------
(* String helpers (std::str) *)

Drop(s, n) == SubSeq(s, n + 1, Len(s))

Take(s, n) == SubSeq(s, 1, n)

starts_with(s, p) == Len(s) >= Len(p) /\ Take(s, Len(p)) = p

ends_with(s, c) == Len(s) > 0 /\ s[Len(s)] = c

\* 1-based position of the first c in s, 0 when there is none
find(s, c) ==
    IF \E i \in DOMAIN s : s[i] = c
    THEN CHOOSE i \in DOMAIN s : s[i] = c /\ \A j \in 1..(i - 1) : s[j] # c
    ELSE 0

\* 1-based position of the last c in s, 0 when there is none
rfind(s, c) ==
    IF \E i \in DOMAIN s : s[i] = c
    THEN CHOOSE i \in DOMAIN s : s[i] = c /\ \A j \in (i + 1)..Len(s) : s[j] # c
    ELSE 0

RECURSIVE trim_start(_)
trim_start(s) ==
    IF Len(s) > 0 /\ s[1] \in WHITESPACE THEN trim_start(Tail(s)) ELSE s

RECURSIVE trim_end(_)
trim_end(s) ==
    IF Len(s) > 0 /\ s[Len(s)] \in WHITESPACE
    THEN trim_end(Take(s, Len(s) - 1))
    ELSE s

trim(s) == trim_end(trim_start(s))

----------------------------------------------------------------------------
(* http::Uri parsing, as reached through str::parse::<http::Uri>() *)

\* Err(InvalidUri): no Uri value is produced
InvalidUri == [ok |-> FALSE, has_scheme |-> FALSE, scheme |-> <<>>, authority |-> <<>>]

\* Ok(Uri { scheme, authority, path_and_query }); the path is not read by url.rs
Uri(has_scheme, scheme, authority) ==
    [ok |-> TRUE, has_scheme |-> has_scheme, scheme |-> scheme, authority |-> authority]

\* The loop of Scheme2::parse over the bytes of s, at 1-based position i
RECURSIVE scheme_scan(_, _)
scheme_scan(s, i) ==
    IF i > Len(s) THEN [kind |-> "None", n |-> 0]
    ELSE IF s[i] = ":" THEN
        IF Len(s) < (i - 1) + 3 THEN [kind |-> "None", n |-> 0]
        ELSE IF SubSeq(s, i + 1, i + 2) # <<"/", "/">> THEN [kind |-> "None", n |-> 0]
        ELSE IF (i - 1) > 64 THEN [kind |-> "Err", n |-> 0]
        ELSE [kind |-> "Other", n |-> i - 1]
    ELSE IF s[i] \notin SCHEME_CHARS THEN [kind |-> "None", n |-> 0]
    ELSE scheme_scan(s, i + 1)

\* Scheme2::parse: Standard(Http|Https), Other(length), None, or an error
Scheme2_parse(s) ==
    IF Len(s) >= 7 /\ eq_ignore_ascii_case(Take(s, 7), <<"h","t","t","p",":","/","/">>)
    THEN [kind |-> "Standard", n |-> 4]
    ELSE IF Len(s) >= 8
            /\ eq_ignore_ascii_case(Take(s, 8), <<"h","t","t","p","s",":","/","/">>)
    THEN [kind |-> "Standard", n |-> 5]
    ELSE IF Len(s) > 3 THEN scheme_scan(s, 1)
    ELSE [kind |-> "None", n |-> 0]

\* Scheme::as_str
Scheme_as_str(s, sch) ==
    IF sch.kind = "Standard"
    THEN (IF sch.n = 4 THEN <<"h","t","t","p">> ELSE <<"h","t","t","p","s">>)
    ELSE Take(s, sch.n)

\* The loop of Authority::parse over the bytes; st carries its local variables.
\* The result is [ok, end] with end the number of bytes of the authority.
RECURSIVE authority_scan(_, _, _)
authority_scan(s, i, st) ==
    IF i > Len(s) THEN st
    ELSE LET b == s[i] IN
        IF b \in {"/", "?", "#"} THEN [st EXCEPT !.end = i - 1]
        ELSE IF b = ":" THEN
            IF st.colon_cnt >= 8 THEN [st EXCEPT !.ok = FALSE]
            ELSE authority_scan(s, i + 1, [st EXCEPT !.colon_cnt = @ + 1])
        ELSE IF b = "[" THEN
            IF st.has_percent \/ st.start_bracket THEN [st EXCEPT !.ok = FALSE]
            ELSE authority_scan(s, i + 1, [st EXCEPT !.start_bracket = TRUE])
        ELSE IF b = "]" THEN
            IF (~st.start_bracket) \/ st.end_bracket THEN [st EXCEPT !.ok = FALSE]
            ELSE authority_scan(s, i + 1,
                    [st EXCEPT !.end_bracket = TRUE, !.colon_cnt = 0,
                               !.has_percent = FALSE])
        ELSE IF b = "@" THEN
            authority_scan(s, i + 1,
                [st EXCEPT !.at_sign_pos = i, !.colon_cnt = 0, !.has_percent = FALSE])
        ELSE IF b = "%" THEN
            authority_scan(s, i + 1, [st EXCEPT !.has_percent = TRUE])
        ELSE IF b \notin URI_CHARS THEN [st EXCEPT !.ok = FALSE]
        ELSE authority_scan(s, i + 1, st)

\* Authority::parse: Ok(end) or Err
Authority_parse(s) ==
    LET st == authority_scan(s, 1,
                [ok |-> TRUE, colon_cnt |-> 0, start_bracket |-> FALSE,
                 end_bracket |-> FALSE, has_percent |-> FALSE,
                 end |-> Len(s), at_sign_pos |-> 0])
    IN  IF ~st.ok THEN [ok |-> FALSE, end |-> 0]
        ELSE IF st.start_bracket # st.end_bracket THEN [ok |-> FALSE, end |-> 0]
        ELSE IF st.colon_cnt > 1 THEN [ok |-> FALSE, end |-> 0]
        ELSE IF st.end > 0 /\ st.at_sign_pos = st.end THEN [ok |-> FALSE, end |-> 0]
        ELSE IF st.has_percent THEN [ok |-> FALSE, end |-> 0]
        ELSE [ok |-> TRUE, end |-> st.end]

\* Authority::from_shared (parse_non_empty, then the whole input must be used)
Authority_from_shared(s) ==
    IF Len(s) = 0 THEN FALSE
    ELSE LET a == Authority_parse(s) IN a.ok /\ a.end = Len(s)

\* PathAndQuery::from_shared: TRUE iff it returns Ok
PathAndQuery_from_shared(s) ==
    LET q  == find(s, "?")
        f  == find(s, "#")
        \* the path loop stops at the first '?' or '#'
        stop == IF q = 0 THEN f ELSE IF f = 0 THEN q ELSE IF q < f THEN q ELSE f
        path == IF stop = 0 THEN s ELSE Take(s, stop - 1)
        inQuery == stop # 0 /\ s[stop] = "?"
        rest == IF inQuery THEN Drop(s, stop) ELSE <<>>
        \* the query loop stops at the first '#'
        f2 == find(rest, "#")
        query == IF f2 = 0 THEN rest ELSE Take(rest, f2 - 1)
    IN  /\ \A i \in DOMAIN path : path[i] \in PATH_CHARS
        /\ \A i \in DOMAIN query : query[i] \in QUERY_CHARS

\* parse_full: scheme, then authority, then path and query
parse_full(s) ==
    LET sch == Scheme2_parse(s) IN
    IF sch.kind = "Err" THEN InvalidUri
    ELSE
    LET r == IF sch.kind = "None" THEN s ELSE Drop(s, sch.n + 3)
        a == Authority_parse(r)
    IN  IF ~a.ok THEN InvalidUri
        ELSE IF sch.kind = "None" THEN
            IF a.end # Len(r) THEN InvalidUri ELSE Uri(FALSE, <<>>, r)
        ELSE IF a.end = 0 THEN InvalidUri
        ELSE IF ~PathAndQuery_from_shared(Drop(r, a.end)) THEN InvalidUri
        ELSE Uri(TRUE, Scheme_as_str(s, sch), Take(r, a.end))

\* Uri::from_shared, the body of <http::Uri as FromStr>::from_str
from_shared(s) ==
    IF Len(s) = 0 THEN InvalidUri
    ELSE IF Len(s) = 1 THEN
        IF s[1] = "/" \/ s[1] = "*" THEN Uri(FALSE, <<>>, <<>>)
        ELSE IF Authority_from_shared(s) THEN Uri(FALSE, <<>>, s)
        ELSE InvalidUri
    ELSE IF s[1] = "/" THEN
        IF PathAndQuery_from_shared(s) THEN Uri(FALSE, <<>>, <<>>) ELSE InvalidUri
    ELSE parse_full(s)

\* Authority::host: the part after the last '@', up to ']' or the first ':'
host(auth) ==
    LET at == rfind(auth, "@")
        host_port == Drop(auth, at)
    IN  IF host_port[1] = "["
        THEN Take(host_port, find(host_port, "]"))
        ELSE LET c == find(host_port, ":") IN
             IF c = 0 THEN host_port ELSE Take(host_port, c - 1)

----------------------------------------------------------------------------
(* struct Url(String, bool) and its operations *)

\* Url(String, bool): field 0 is the text, field 1 the cached validity flag
Url(text, valid) == [text |-> text, valid |-> valid]

\* Url::new with every trailing '/' removed instead of one
RECURSIVE strip_all(_)
strip_all(s) == IF ends_with(s, "/") THEN strip_all(Take(s, Len(s) - 1)) ELSE s

new_strip_all(s) == Url(strip_all(s), from_shared(strip_all(s)).ok)

\* Url::new with the flag computed from the input before the '/' is removed
new_flag_from_input(s) ==
    LET s2 == IF ends_with(s, "/") THEN Take(s, Len(s) - 1) ELSE s
    IN  Url(s2, from_shared(s).ok)

\* Url::new that reports the parse error instead of storing FALSE
new_fallible(s) ==
    LET s2 == IF ends_with(s, "/") THEN Take(s, Len(s) - 1) ELSE s
    IN  IF from_shared(s2).ok THEN Url(s2, TRUE) ELSE [err |-> "InvalidUri"]

\* Url::new
new(s) ==
    LET s2 == IF ends_with(s, "/") THEN Take(s, Len(s) - 1) ELSE s
    IN  Url(s2, from_shared(s2).ok)

\* Url::inner
inner(x) == x.text

\* <Url as Deref>::deref
deref(x) == x.text

\* <Url as Display>::fmt: the text written to the formatter
fmt(x) == x.text

\* Url::is_valid_relay_url with the scheme compared without regard to case
is_valid_relay_url_any_case(x) ==
    LET uri == from_shared(x.text) IN
    /\ uri.ok
    /\ uri.has_scheme
    /\ \/ eq_ignore_ascii_case(uri.scheme, <<"w","s","s">>)
       \/ eq_ignore_ascii_case(uri.scheme, <<"w","s">>)
    /\ uri.authority # <<>>
    /\ LET h == host(uri.authority) IN
        /\ h = trim(h)
        /\ ~starts_with(h, <<"l","o","c","a","l","h","o","s","t">>)
        /\ ~starts_with(h, <<"1","2","7",".">>)
        /\ ~starts_with(h, <<"[",":",":","1","/">>)
        /\ ~starts_with(h, <<"[","0",":">>)

\* Url::is_valid_relay_url
is_valid_relay_url(x) ==
    LET uri == from_shared(x.text) IN
    IF uri.ok THEN
        IF uri.has_scheme THEN
            IF uri.scheme = <<"w","s","s">> \/ uri.scheme = <<"w","s">> THEN
                IF uri.authority # <<>> THEN
                    LET h == host(uri.authority) IN
                    IF /\ h = trim(h)
                       /\ ~starts_with(h, <<"l","o","c","a","l","h","o","s","t">>)
                       /\ ~starts_with(h, <<"1","2","7",".">>)
                       /\ ~starts_with(h, <<"[",":",":","1","/">>)
                       /\ ~starts_with(h, <<"[","0",":">>)
                    THEN TRUE
                    ELSE FALSE
                ELSE FALSE
            ELSE FALSE
        ELSE FALSE
    ELSE FALSE

\* Url::is_valid
is_valid(x) == x.valid

\* "wss://example.com"
MockText == <<"w","s","s",":","/","/","e","x","a","m","p","l","e",".","c","o","m">>

\* Url::mock with the flag left FALSE
mock_flag_false == Url(MockText, FALSE)

\* Url::mock
mock == Url(MockText, TRUE)

\* derived PartialEq: field by field
eq(a, b) == a.text = b.text /\ a.valid = b.valid

\* <Url as Serialize>::serialize: the string scalar handed to the serializer
serialize(x) == [kind |-> "str", text |-> x.text]

\* UrlVisitor::visit_str
visit_str(s) == [tag |-> "Ok", val |-> new(s)]

\* <Url as Deserialize>::deserialize: deserialize_str calls visit_str on a string
\* scalar; for any other scalar the visitor's default methods report the
\* "invalid type" error built from UrlVisitor::expecting
deserialize(w) ==
    IF w.kind = "str" THEN visit_str(w.text)
    ELSE [tag |-> "Err", val |-> Url(<<>>, FALSE)]

----------------------------------------------------------------------------
(* Inputs *)

Schemes ==
    { <<>>,
      <<"w","s",":","/","/">>,
      <<"w","s","s",":","/","/">>,
      <<"W","S","S",":","/","/">>,
      <<"h","t","t","p","s",":","/","/">> }

Hosts ==
    { <<>>,
      <<"a">>,
      <<" ">>,
      <<"u","@","a">>,
      <<"l","o","c","a","l","h","o","s","t">>,
      <<"1","2","7",".","0",".","0",".","1">>,
      <<"[",":",":","1","]">>,
      <<"[","0",":",":","1","]">>,
      <<"r","e","l","a","y",".","e","x","a","m","p","l","e",".","c","o","m">> }

TailChars == {"/", ":", "8"}

RECURSIVE StringsUpTo(_)
StringsUpTo(n) ==
    IF n = 0 THEN { <<>> }
    ELSE LET shorter == StringsUpTo(n - 1)
         IN  shorter \cup { Append(s, c) : s \in shorter, c \in TailChars }

Tails == StringsUpTo(MaxLen)

\* Texts named by the tests of the specification
Examples ==
    { MockText,
      Append(MockText, "/"),
      <<"n","o","t"," ","a"," ","u","r","l">>,
      <<"w","s",":","/","/","l","o","c","a","l","h","o","s","t",":","8","0","8","0">>,
      <<"w","s",":","/","/","[",":",":","1","]",":","8","0","8","0">>,
      <<"w","s","s",":","/","/","a",".","c","o","m">>,
      <<"w","s","s",":","/","/","b",".","c","o","m">>,
      <<"*">>, <<"a","?","b","#","c">>, <<"w","s",":","/","/","a","/","b","?","c"," ">> }

Inputs == { sc \o h \o t : sc \in Schemes, h \in Hosts, t \in Tails } \cup Examples

\* The values a Url is compared with
Others ==
    { new(<<>>), new(<<"/","/">>), new(MockText),
      new(<<"w","s","s",":","/","/","a",".","c","o","m">>) }

----------------------------------------------------------------------------
(* State machine: one Url value, built once, then queried and encoded *)

NoUrl == Url(<<>>, FALSE)

NoRet == [tag |-> "None"]

NoWire == [kind |-> "none", text |-> <<>>]

\* a scalar on the wire that is not a string
NonString == [kind |-> "int", text |-> <<>>]

Init ==
    /\ raw \in Inputs
    /\ ctor = "none"
    /\ u = NoUrl
    /\ op = "none"
    /\ ret = NoRet
    /\ wire = NoWire
    /\ other = NoUrl

\* let x = Url::new(raw)
New ==
    /\ ctor = "none"
    /\ ctor' = "new"
    /\ u' = new(raw)
    /\ op' = "new"
    /\ ret' = NoRet
    /\ UNCHANGED <<raw, wire, other>>

\* let x = Url::mock()
Mock ==
    /\ ctor = "none"
    /\ ctor' = "mock"
    /\ raw' = <<>>
    /\ u' = mock
    /\ op' = "mock"
    /\ ret' = NoRet
    /\ UNCHANGED <<wire, other>>

\* let x: Url = deserialize(string scalar raw)
Decode ==
    /\ ctor = "none"
    /\ LET r == deserialize([kind |-> "str", text |-> raw]) IN
        /\ ret' = r
        /\ u' = r.val
        /\ ctor' = IF r.tag = "Ok" THEN "deserialize" ELSE "none"
    /\ op' = "decode"
    /\ UNCHANGED <<raw, wire, other>>

\* deserialize(a scalar that is not a string): an error, no Url
DecodeNonString ==
    /\ ctor = "none"
    /\ ret' = deserialize(NonString)
    /\ op' = "decode_err"
    /\ UNCHANGED <<raw, ctor, u, wire, other>>

Inner ==
    /\ ctor # "none"
    /\ op' = "inner"
    /\ ret' = inner(u)
    /\ other' = NoUrl
    /\ UNCHANGED <<raw, ctor, u, wire>>

Deref ==
    /\ ctor # "none"
    /\ op' = "deref"
    /\ ret' = deref(u)
    /\ other' = NoUrl
    /\ UNCHANGED <<raw, ctor, u, wire>>

Display ==
    /\ ctor # "none"
    /\ op' = "display"
    /\ ret' = fmt(u)
    /\ other' = NoUrl
    /\ UNCHANGED <<raw, ctor, u, wire>>

IsValid ==
    /\ ctor # "none"
    /\ op' = "is_valid"
    /\ ret' = is_valid(u)
    /\ other' = NoUrl
    /\ UNCHANGED <<raw, ctor, u, wire>>

IsValidRelayUrl ==
    /\ ctor # "none"
    /\ op' = "is_valid_relay_url"
    /\ ret' = is_valid_relay_url(u)
    /\ other' = NoUrl
    /\ UNCHANGED <<raw, ctor, u, wire>>

\* x == o
Eq ==
    /\ ctor # "none"
    /\ \E o \in Others :
        /\ other' = o
        /\ ret' = eq(u, o)
    /\ op' = "eq"
    /\ UNCHANGED <<raw, ctor, u, wire>>

\* serialize that moves the text out of the value
SerializeTaking ==
    /\ ctor # "none"
    /\ wire' = serialize(u)
    /\ u' = Url(<<>>, u.valid)
    /\ op' = "serialize"
    /\ ret' = [tag |-> "Ok"]
    /\ other' = NoUrl
    /\ UNCHANGED <<raw, ctor>>

\* x.serialize(serializer): the string scalar goes on the wire
Serialize ==
    /\ ctor # "none"
    /\ wire' = serialize(u)
    /\ op' = "serialize"
    /\ ret' = [tag |-> "Ok"]
    /\ other' = NoUrl
    /\ UNCHANGED <<raw, ctor, u>>

\* Url::deserialize(deserializer) on the scalar on the wire
Deserialize ==
    /\ ctor # "none"
    /\ wire.kind # "none"
    /\ ret' = deserialize(wire)
    /\ op' = "deserialize"
    /\ other' = NoUrl
    /\ UNCHANGED <<raw, ctor, u, wire>>

Next ==
    \/ New
    \/ Mock
    \/ Decode
    \/ DecodeNonString
    \/ Inner
    \/ Deref
    \/ Display
    \/ IsValid
    \/ IsValidRelayUrl
    \/ Eq
    \/ Serialize
    \/ Deserialize

Spec == Init /\ [][Next]_vars

----------------------------------------------------------------------------
(* Properties *)

Live == ctor # "none"

Slash2 == <<"/", "/">>

WsPrefixes == { <<"w","s",":","/","/">>, <<"w","s","s",":","/","/">> }

\* C1: round trip.  Decoding the encoding of a constructed Url gives a value
\* equal to it; in particular the decoded text equals the text of the value,
\* also for a value built from a string ending in two or more '/'.
C1_RoundTrip ==
    (Live /\ op = "deserialize" /\ wire = serialize(u))
        => /\ ret.tag = "Ok"
           /\ eq(ret.val, u)
           /\ inner(ret.val) = inner(u)

\* C2: normalization idempotence.  Applying Url::new to the text of a Url that
\* Url::new produced gives the same text again.
C2_Idempotent ==
    (ctor \in {"new", "deserialize"}) => inner(new(inner(u))) = inner(u)

\* C3: construction is total.  After Url::new on any input, and after decoding
\* any string scalar, a Url value (a text and a boolean flag) exists and the
\* call reported success; an unparseable text only gives is_valid() = FALSE.
C3_Total ==
    /\ op \in {"new", "decode"} =>
          /\ DOMAIN u = {"text", "valid"}
          /\ ctor \in {"new", "deserialize"}
          /\ is_valid(u) \in BOOLEAN
          /\ (~from_shared(inner(u)).ok => is_valid(u) = FALSE)
    /\ op = "decode" => ret.tag = "Ok"
    /\ (op = "deserialize" /\ wire.kind = "str") => ret.tag = "Ok"

\* C3 witness: Url::new has run on unparseable garbage and returned a Url
\* whose flag is FALSE.
C3_Witness ==
    /\ op = "new"
    /\ raw = <<"n","o","t"," ","a"," ","u","r","l">>
    /\ inner(u) = raw
    /\ is_valid(u) = FALSE

\* The conditions the specification lists for a relay URL, as one conjunction.
RelayConditions(text) ==
    LET uri == from_shared(text) IN
    /\ uri.ok
    /\ uri.has_scheme
    /\ uri.scheme \in { <<"w","s">>, <<"w","s","s">> }
    /\ uri.authority # <<>>
    /\ host(uri.authority) = trim(host(uri.authority))
    /\ \A p \in { <<"l","o","c","a","l","h","o","s","t">>, <<"1","2","7",".">>,
                  <<"[",":",":","1","/">>, <<"[","0",":">> } :
          ~starts_with(host(uri.authority), p)

\* C4: is_valid_relay_url() is TRUE exactly when the text parses, has scheme
\* "ws" or "wss" in lowercase, has an authority, and its host is trimmed and
\* starts with none of "localhost", "127.", "[::1/", "[0:"; the four texts the
\* specification names get the answers it names.
C4_RelayExactly ==
    (Live /\ op = "is_valid_relay_url") =>
        /\ ret = RelayConditions(inner(u))
        /\ inner(u) = <<"h","t","t","p","s",":","/","/">> \o
                      <<"r","e","l","a","y",".","e","x","a","m","p","l","e",".","c","o","m">>
              => ret = FALSE
        /\ inner(u) = <<"w","s",":","/","/","1","2","7",".","0",".","0",".","1">>
              => ret = FALSE
        /\ inner(u) = <<"w","s",":","/","/","l","o","c","a","l","h","o","s","t",
                        ":","8","0","8","0">>
              => ret = FALSE
        /\ inner(u) = <<"w","s","s",":","/","/">> \o
                      <<"r","e","l","a","y",".","e","x","a","m","p","l","e",".","c","o","m">>
              => ret = TRUE

\* C4 witness: the query answered TRUE for wss://relay.example.com.
C4_Witness ==
    /\ op = "is_valid_relay_url"
    /\ inner(u) = <<"w","s","s",":","/","/">> \o
                  <<"r","e","l","a","y",".","e","x","a","m","p","l","e",".","c","o","m">>
    /\ ret = TRUE

\* C5: for every Url built by new, decode or mock, and for every decoded copy,
\* is_valid() = FALSE implies is_valid_relay_url() = FALSE.
C5_InvalidNeverRelay ==
    /\ Live => (~is_valid(u) => ~is_valid_relay_url(u))
    /\ (Live /\ op = "deserialize" /\ ret.tag = "Ok")
          => (~is_valid(ret.val) => ~is_valid_relay_url(ret.val))

\* C5 witness: is_valid_relay_url() answered FALSE on a value whose is_valid()
\* is FALSE, while a value exists with is_valid() TRUE and
\* is_valid_relay_url() FALSE (the converse fails).
C5_Witness ==
    /\ op = "is_valid_relay_url"
    /\ ~is_valid(u)
    /\ ret = FALSE
    /\ \E o \in Others : is_valid(o) /\ ~is_valid_relay_url(o)

\* C6: two Url values are equal exactly when their texts are equal.
C6_EqualIffSameText ==
    (Live /\ op = "eq") => (ret = (inner(u) = inner(other)))

\* C6 witness: a Url built by Url::new compared equal to another value.
C6_Witness ==
    /\ op = "eq"
    /\ ctor = "new"
    /\ raw # inner(other)
    /\ ret = TRUE

\* ws:// or wss://, then [::1], a colon and a port of digits
IsBracketLoopbackWithPort(text) ==
    \E sc \in WsPrefixes :
        LET pre == sc \o <<"[",":",":","1","]",":">> IN
        /\ starts_with(text, pre)
        /\ Len(text) > Len(pre)
        /\ \A i \in (Len(pre) + 1)..Len(text) : text[i] \in DIGIT

\* C7: is_valid_relay_url() is FALSE for ws:// or wss:// followed by an
\* authority of the form [::1]:port.
C7_Ipv6LoopbackRejected ==
    (Live /\ op = "is_valid_relay_url" /\ IsBracketLoopbackWithPort(inner(u)))
        => ret = FALSE

C9_FlagMatchesText ==
    /\ Live => is_valid(u) = from_shared(inner(u)).ok
    /\ (Live /\ op = "deserialize" /\ ret.tag = "Ok")
          => is_valid(ret.val) = from_shared(inner(ret.val)).ok
    /\ ctor = "mock" => eq(u, new(MockText))

\* C9 witness: is_valid() has answered on the value mock() returned.
C9_Witness ==
    /\ ctor = "mock"
    /\ op = "is_valid"
    /\ ret = TRUE

\* C10: once a Url is constructed, no operation changes its text or its flag,
\* and each query answers from that unchanged value.
C10_Immutable ==
    [][Live =>
          /\ u' = u
          /\ ctor' = ctor
          /\ op' = "inner" => ret' = inner(u)
          /\ op' = "deref" => ret' = inner(u)
          /\ op' = "display" => ret' = inner(u)
          /\ op' = "is_valid" => ret' = is_valid(u)
          /\ op' = "is_valid_relay_url" => ret' = is_valid_relay_url(u)
          /\ op' = "serialize" => wire'.text = inner(u)]_vars

\* C10 witness: a value built from a text ending in '/' has been queried and
\* serialized and still holds what Url::new gave it.
C10_Witness ==
    /\ op = "is_valid_relay_url"
    /\ wire.kind = "str"
    /\ ctor = "new"
    /\ ends_with(raw, "/")
    /\ u = new(raw)

====
